---- MODULE Spec2Model ----
(***************************************************************************)
(* Model of drivers/misc/mediatek/rtc/mtk_rtc_tickstamp.c: the persistent  *)
(* tick accumulator (g_stamp.epoch), its two deferred workers              *)
(* (ts_read_stamp, ts_write_stamp) and the public calls ts_init, ts_stamp, *)
(* ts_set and ts_get.                                                      *)
(*                                                                         *)
(* Machine words are shrunk to WordMod values: an unsigned long is a       *)
(* number in 0..WordMod-1, a long is the same residue read as a signed     *)
(* number.  Every arithmetic result is reduced the way the machine does.   *)
(***************************************************************************)
EXTENDS Integers, FiniteSets, TLC

\* ------------------------------------------------------------------ bounds
\* Number of values of a machine word (2^w on the real machine): an unsigned
\* long is 0..WordMod-1, a long the residues around 0.
WordMod == 3
\* Total number of ts_stamp calls the embedding system makes.
MaxStamps == 2
\* Total number of ts_set calls the embedding system makes.
MaxSets == 1
\* Number of times the system is restarted (SpecReboot).
MaxBoots == 1
\* Number of values of an unsigned int (the retry budgets): 0..UintMod-1.
UintMod == 4

\* ------------------------------------------------------- program constants
\* ((unsigned int)-1): the largest value of the shrunk unsigned int
INFINITY == UintMod - 1
TS_INTERVAL == 1000
SizeofStamp == 8
EIO == 5
EINVAL == 22

\* ------------------------------------------------------------ machine words
Unsigned == 0 .. (WordMod - 1)
SignedMin == 0 - (WordMod \div 2)
SignedMax == (WordMod - 1) \div 2
Signed == SignedMin .. SignedMax

\* the cast (long)x of an unsigned long, and the wrap of a long result
ToSigned(x) == IF (x % WordMod) > SignedMax THEN (x % WordMod) - WordMod ELSE x % WordMod

\* ---------------------------------------------------------------- contexts
\* execution contexts of the embedding system that call ts_stamp
StampCallers == {"s1", "s2"}
\* contexts that run ts_stamp: the callers and the recovery worker's fallback
StampContexts == StampCallers \cup {"reader"}
\* contexts that call ts_init: one in Spec, two racing ones in SpecInitRace
InitCallers == {"i1"}
RacingInitCallers == {"i1", "i2"}
\* the ticker_fn argument of ts_init: a function, or NULL
TickerArgs == {TRUE, FALSE}

VARIABLES
    g_stamp,            \* [epoch]: the live accumulator
    g_ticker_fn,        \* TRUE when a ticker function is registered (non-NULL)
    init_done,          \* ts_init's static flag
    ts_read_work,       \* [func, retrigger_count, trigger_interval, pending]
    ts_write_work,      \* [func, retrigger_count, trigger_interval, pending]
    ts_stamp_rw_mutex,  \* "unlocked", or the worker that owns it
    ticker,             \* what g_ticker_fn() returns now (hardware counter)
    mounted,            \* whether kern_path(TS_DIR) resolves
    file,               \* the backing file TS_PATH: [exists, len, epoch]
    init,               \* per ts_init caller: [pc, fn]
    st,                 \* per ts_stamp context: [pc, sum]
    rd,                 \* ts_read_stamp's frame: [pc, size, tsfp, tick, count]
    wr,                 \* ts_write_stamp's frame: [pc, size, tsfp, stamp, count]
    hist                \* history of the run (observers only, never read by the code)

vars == << g_stamp, g_ticker_fn, init_done, ts_read_work, ts_write_work,
           ts_stamp_rw_mutex, ticker, mounted, file, init, st, rd, wr, hist >>

\* ---------------------------------------------------------------- the file
NoFile == [exists |-> FALSE, len |-> 0, epoch |-> 0]
EmptyFile == [exists |-> TRUE, len |-> 0, epoch |-> 0]
FullFile(e) == [exists |-> TRUE, len |-> SizeofStamp, epoch |-> e]
FileStates == {NoFile, EmptyFile} \cup {FullFile(e) : e \in Signed}

\* ------------------------------------------------------------- count_down
\* a count_down without the INFINITY case of lines 35-36
count_down_finite(value, delta) ==
    IF value = 0 \/ value < delta
    THEN [ret |-> FALSE, value |-> value]
    ELSE [ret |-> (value - delta) # 0, value |-> value - delta]

\* bool count_down(unsigned int *value, unsigned int delta): the returned
\* flag and the value left behind the pointer.
count_down(value, delta) ==
    IF value = 0 \/ value < delta
    THEN [ret |-> FALSE, value |-> value]
    ELSE IF value = INFINITY
         THEN [ret |-> TRUE, value |-> value]
         ELSE [ret |-> (value - delta) # 0, value |-> value - delta]

\* ------------------------------------------------------------ work items
\* a struct ts_work_struct in static storage before ts_work_init ran
ZeroWork == [func |-> FALSE, retrigger_count |-> 0, trigger_interval |-> 0,
             pending |-> FALSE]

\* ts_work_init: INIT_WORK rewrites the work's data word (the pending bit is
\* cleared) and sets the function, then the two retry fields are stored.
ts_work_init(retrigger_count, trigger_interval) ==
    [func |-> TRUE, retrigger_count |-> retrigger_count,
     trigger_interval |-> trigger_interval, pending |-> FALSE]

\* schedule_work: test-and-set of the pending bit; true when it queued the
\* work, false when the work was already pending.
schedule_work(work) ==
    [ret |-> ~work.pending, work |-> [work EXCEPT !.pending = TRUE]]

\* ts_work_run(&work): the pointer is never NULL, the result is schedule_work's
ts_work_run(work) == schedule_work(work)

\* ts_set's return value, from what ts_work_run returned
ts_set(run_ret) == (run_ret = FALSE)

\* ------------------------------------------------------------ ts_stamp
\* a ts_stamp that subtracts the wrong way round
stamp_delta_reversed(now, tick) == ToSigned(tick - now)

\* delta = (long)(g_ticker_fn() - tick)
stamp_delta(now, tick) == ToSigned(now - tick)
\* g_stamp.epoch + delta, on the value the context loaded
stamp_add(loaded, delta) == ToSigned(loaded + delta)

\* ------------------------------------------------------------ validation
\* a plausibility test with the comparison turned round
epoch_before_tick(epoch, tick) == epoch < ToSigned(tick)

\* a plausibility test that also rejects a record equal to the reading
epoch_not_before_tick(epoch, tick) == epoch >= ToSigned(tick)

\* g_stamp.epoch > (long)tick
epoch_after_tick(epoch, tick) == epoch > ToSigned(tick)

\* frames of contexts that are not inside a call
IdleInit == [pc |-> "idle", fn |-> FALSE]
IdleStamp == [pc |-> "idle", sum |-> 0]
IdleReader == [pc |-> "idle", size |-> 0 - EIO, tsfp |-> FALSE, tick |-> 0,
               count |-> 0]
IdleWriter == [pc |-> "idle", size |-> 0 - EIO, tsfp |-> FALSE,
               stamp |-> [epoch |-> 0], count |-> 0]

\* a ts_stamp call is between its load of the epoch and its store
InStamp(c) == st[c].pc # "idle"
StampsInFlight == {c \in StampContexts : InStamp(c)}

\* ------------------------------------------------------------- history
\* shadow      the epoch if every ts_stamp delta and every recovery write had
\*             been applied one after another, none lost
\* race        "stamp" once a ts_stamp call began while another was in flight,
\*             "recovery" once the recovery worker wrote the epoch while a
\*             ts_stamp call was in flight, "none" before
\* stamps      ts_stamp calls of the embedding system that folded a delta
\* init_runs   times the body of ts_init (lines 218-222) was entered
\* sets        ts_set calls of the embedding system
\* req_epoch   the epoch when ts_set last queued the persist work
\* rd_path     how the current or last recovery run went
\* rd_seen     the ticker when the recovery run failed to open the file
\* rd_stamps   ts_stamp calls of the recovery run
\* rd_quiet    no ts_stamp call of the embedding system was in flight since
\*             the recovery run took the mutex
\* boots       restarts of the system so far
\* rebuilt     "requested" once a recovery run that found a regressed ticker
\*             submitted the persist work, "written" once the persist worker
\*             has then written the record, "no" before
\* The rd_ fields are forgotten when the recovery run returns.
InitHist ==
    [shadow |-> 0, race |-> "none", stamps |-> 0, init_runs |-> 0,
     sets |-> 0, req_epoch |-> 0,
     rd_path |-> "none", rd_seen |-> 0, rd_stamps |-> 0, rd_quiet |-> FALSE,
     boots |-> 0, rebuilt |-> "no"]

\* the delta a ts_stamp call is specified to fold: ticker() - reference_tick
SpecDelta(now, tick) == ToSigned(now - tick)

\* the history after the recovery worker wrote `value` to the epoch
RecoveryWrote(h, value) ==
    IF StampsInFlight # {}
    THEN [h EXCEPT !.race = "recovery", !.shadow = 0]
    ELSE [h EXCEPT !.shadow = IF h.race = "recovery" THEN 0 ELSE value]

\* the history after a ts_stamp call loaded the epoch to add `delta`
StampBegan(h, delta) ==
    [h EXCEPT !.race = IF @ = "none" /\ StampsInFlight # {} THEN "stamp" ELSE @,
              !.shadow = IF h.race = "recovery" THEN 0 ELSE ToSigned(@ + delta)]

InitFor(callers) ==
    /\ g_stamp = [epoch |-> 0]
    /\ g_ticker_fn = FALSE
    /\ init_done = FALSE
    /\ ts_read_work = ZeroWork
    /\ ts_write_work = ZeroWork
    /\ ts_stamp_rw_mutex = "unlocked"
    /\ ticker \in Unsigned
    /\ mounted = FALSE
    /\ file \in FileStates
    /\ init = [c \in callers |-> IdleInit]
    /\ st = [c \in StampContexts |-> IdleStamp]
    /\ rd = IdleReader
    /\ wr = IdleWriter
    /\ hist = InitHist

Init == InitFor(InitCallers)

\* ------------------------------------------------------------ environment
\* the hardware counter advances
Tick ==
    /\ ticker < WordMod - 1
    /\ ticker' = ticker + 1
    /\ UNCHANGED << g_stamp, g_ticker_fn, init_done, ts_read_work, ts_write_work,
                    ts_stamp_rw_mutex, mounted, file, init, st, rd, wr, hist >>

\* the storage directory TS_DIR becomes resolvable
Mount ==
    /\ ~mounted
    /\ mounted' = TRUE
    /\ UNCHANGED << g_stamp, g_ticker_fn, init_done, ts_read_work, ts_write_work,
                    ts_stamp_rw_mutex, ticker, file, init, st, rd, wr, hist >>

\* ------------------------------------------------------------------ ts_init
\* line 217: the test of init_done; a set flag returns at once
ts_init_test(c, fn) ==
    /\ init[c].pc = "idle"
    /\ init' = [init EXCEPT ![c] = IF init_done THEN IdleInit
                                                ELSE [pc |-> "body", fn |-> fn]]
    /\ hist' = [hist EXCEPT !.init_runs = IF init_done THEN @ ELSE @ + 1]
    /\ UNCHANGED << g_stamp, g_ticker_fn, init_done, ts_read_work, ts_write_work,
                    ts_stamp_rw_mutex, ticker, mounted, file, st, rd, wr >>

\* lines 218-222: register the ticker, initialise both works, submit the
\* recovery work, set init_done
ts_init_body(c) ==
    /\ init[c].pc = "body"
    /\ g_ticker_fn' = init[c].fn
    /\ ts_write_work' = ts_work_init(INFINITY, TS_INTERVAL)
    /\ ts_read_work' = ts_work_run(ts_work_init(INFINITY, TS_INTERVAL)).work
    /\ init_done' = TRUE
    /\ init' = [init EXCEPT ![c] = IdleInit]
    /\ UNCHANGED << g_stamp, ts_stamp_rw_mutex, ticker, mounted, file, st, rd, wr,
                    hist >>

\* ----------------------------------------------------------------- ts_stamp
\* a ts_stamp without the NULL test of line 231
ts_stamp_enter_unchecked(c, tick) ==
    [st EXCEPT ![c] = [pc |-> "store",
                       sum |-> stamp_add(g_stamp.epoch, stamp_delta(ticker, tick))]]

\* lines 231-233 up to the store, in context c: the NULL test, the delta, the
\* load of g_stamp.epoch and the addition
ts_stamp_enter(c, tick) ==
    IF g_ticker_fn
    THEN [st EXCEPT ![c] = [pc |-> "store",
                            sum |-> stamp_add(g_stamp.epoch, stamp_delta(ticker, tick))]]
    ELSE st

\* a caller of the embedding system runs ts_stamp(tick) up to the store; the
\* callers are told apart only while their calls overlap, so a call runs in
\* the first context that is free
ts_stamp_call(c, tick) ==
    /\ st[c].pc = "idle"
    /\ c = "s2" => st["s1"].pc # "idle"
    /\ hist.stamps < MaxStamps
    /\ st' = ts_stamp_enter(c, tick)
    /\ hist' = IF g_ticker_fn
               THEN [StampBegan(hist, SpecDelta(ticker, tick))
                        EXCEPT !.stamps = @ + 1, !.rd_quiet = FALSE]
               ELSE hist
    /\ UNCHANGED << g_stamp, g_ticker_fn, init_done, ts_read_work, ts_write_work,
                    ts_stamp_rw_mutex, ticker, mounted, file, init, rd, wr >>

\* line 233: the store of the sum into g_stamp.epoch, and the return
ts_stamp_store(c) ==
    /\ st[c].pc = "store"
    /\ g_stamp' = [g_stamp EXCEPT !.epoch = st[c].sum]
    /\ st' = [st EXCEPT ![c] = IdleStamp]
    /\ rd' = IF c = "reader" THEN [rd EXCEPT !.pc = "set"] ELSE rd
    /\ UNCHANGED << g_ticker_fn, init_done, ts_read_work, ts_write_work,
                    ts_stamp_rw_mutex, ticker, mounted, file, init, wr, hist >>

\* ------------------------------------------------------------------- ts_set
\* the history after a ts_set call whose ts_work_run gave `run`
SetCalled(h, run) ==
    [h EXCEPT !.req_epoch = IF run.ret THEN g_stamp.epoch ELSE @]

\* request_persist by the embedding system (the works exist once ts_init ran)
ts_set_call ==
    /\ ts_write_work.func
    /\ hist.sets < MaxSets
    /\ ts_write_work' = ts_work_run(ts_write_work).work
    /\ hist' = [SetCalled(hist, ts_work_run(ts_write_work)) EXCEPT !.sets = @ + 1]
    /\ UNCHANGED << g_stamp, g_ticker_fn, init_done, ts_read_work,
                    ts_stamp_rw_mutex, ticker, mounted, file, init, st, rd, wr >>

\* ------------------------------------------------------------------- ts_get
\* lines 248-254: the value ts_get stores through its pointer when called in
\* the current state (get_stamp copies g_stamp, no lock is taken)
ts_get == g_stamp.epoch

\* ----------------------------------------------------------------- ts_close
\* a ts_close that leaves the handle as it is
ts_close_skipped(fp) == fp

\* lines 88-100: whether the handle is still open after ts_close(fp); a NULL
\* handle is left alone, an open one goes through filp_close
ts_close(fp) == FALSE

\* --------------------------------------------------------------- the mutex
\* a mutex_lock that returns without waiting for the owner
mutex_lock_unchecked(owner) == TRUE

\* mutex_lock(&ts_stamp_rw_mutex) returns only once the mutex has no owner
mutex_lock(owner) == owner = "unlocked"

\* a return path that leaves the mutex locked
mutex_unlock_forgotten(owner, by) == {owner}

\* mutex_unlock(&ts_stamp_rw_mutex) by worker `by`: the owners the mutex can
\* have afterwards.  Unlocking a mutex the caller does not own is undefined:
\* the mutex is released or stays as it was.
mutex_unlock(owner, by) ==
    IF owner = by THEN {"unlocked"} ELSE {"unlocked", owner}

\* ------------------------------------------------------------ wait_vfsmount
\* a wait_vfsmount that takes no notice of kern_path's result and sleeps
wait_vfsmount_blind(count) ==
    LET cd == count_down(count, 1)
    IN IF ~cd.ret THEN [next |-> "exit", count |-> cd.value]
       ELSE [next |-> "wait", count |-> cd.value]

\* one turn of the loop at lines 50-55 with the budget `count` left: where the
\* worker goes next ("wait" is msleep and another turn) and the budget left.
\* TS_DIR is never NULL.
wait_vfsmount(count) ==
    LET cd == count_down(count, 1)
    IN IF ~cd.ret THEN [next |-> "exit", count |-> cd.value]
       ELSE IF mounted THEN [next |-> "lock", count |-> cd.value]
       ELSE [next |-> "wait", count |-> cd.value]

\* -------------------------------------------------------------- ts_read_stamp
\* the workqueue starts the recovery work: the pending bit is cleared and
\* ts_read_stamp is entered (lines 130-135)
ts_read_stamp_start ==
    /\ ts_read_work.pending
    /\ rd.pc \in {"idle", "done"}
    /\ ts_read_work' = [ts_read_work EXCEPT !.pending = FALSE]
    /\ rd' = [IdleReader EXCEPT !.pc = "wait",
                                !.count = ts_read_work.retrigger_count]
    /\ UNCHANGED hist
    /\ UNCHANGED << g_stamp, g_ticker_fn, init_done, ts_write_work,
                    ts_stamp_rw_mutex, ticker, mounted, file, init, st, wr >>

\* lines 136-137: one turn of wait_vfsmount; false leaves through _exit
ts_read_stamp_wait ==
    /\ rd.pc = "wait"
    /\ LET w == wait_vfsmount(rd.count)
       IN rd' = [rd EXCEPT !.count = w.count,
                           !.pc = IF w.next = "exit" THEN "close" ELSE w.next]
    /\ UNCHANGED << g_stamp, g_ticker_fn, init_done, ts_read_work, ts_write_work,
                    ts_stamp_rw_mutex, ticker, mounted, file, init, st, wr, hist >>

\* lines 139-141: mutex_lock, then ts_open(TS_PATH, O_RDONLY); NULL leaves
\* through _exit
ts_read_stamp_open(ok) ==
    /\ rd.pc = "lock"
    /\ mutex_lock(ts_stamp_rw_mutex)
    /\ ts_stamp_rw_mutex' = "reader"
    /\ LET opened == file.exists /\ ok
       IN /\ rd' = [rd EXCEPT !.tsfp = opened,
                              !.pc = IF opened THEN "read" ELSE "close"]
          /\ hist' = [hist EXCEPT !.rd_path = IF opened THEN "opened"
                                             ELSE IF file.exists THEN "open_error"
                                             ELSE "absent",
                                  !.rd_seen = IF opened THEN 0 ELSE ticker,
                                  !.rd_quiet = (StampsInFlight = {})]
    /\ UNCHANGED << g_stamp, g_ticker_fn, init_done, ts_read_work, ts_write_work,
                    ticker, mounted, file, init, st, wr >>

\* lines 143-144: ts_read straight into g_stamp; vfs_read returns the bytes it
\* copied (the whole record, or none from an empty file) or a negative error
ts_read_stamp_read(ok) ==
    /\ rd.pc = "read"
    /\ LET size == IF ok THEN file.len ELSE 0 - EIO
           loaded == ok /\ file.len = SizeofStamp
       IN /\ g_stamp' = IF loaded THEN [g_stamp EXCEPT !.epoch = file.epoch]
                        ELSE g_stamp
          /\ rd' = [rd EXCEPT !.size = size,
                              !.pc = IF size < 0 THEN "close" ELSE "validate"]
          /\ hist' = [(IF loaded THEN RecoveryWrote(hist, file.epoch) ELSE hist)
                         EXCEPT !.rd_path = IF size < 0 THEN "read_error"
                                            ELSE IF loaded THEN "loaded"
                                            ELSE "short"]
    /\ UNCHANGED << g_ticker_fn, init_done, ts_read_work, ts_write_work,
                    ts_stamp_rw_mutex, ticker, mounted, file, init, st, wr >>

\* lines 146-157: the plausibility test against the ticker
ts_read_stamp_validate ==
    /\ rd.pc = "validate"
    /\ LET regressed == g_ticker_fn /\ epoch_after_tick(g_stamp.epoch, ticker)
       IN /\ g_stamp' = IF regressed THEN [g_stamp EXCEPT !.epoch = 0] ELSE g_stamp
          /\ rd' = [rd EXCEPT !.tick = IF g_ticker_fn THEN ticker ELSE @,
                              !.size = IF regressed THEN 0 - EINVAL ELSE @,
                              !.pc = "close"]
          /\ hist' = [(IF regressed THEN RecoveryWrote(hist, 0) ELSE hist)
                         EXCEPT !.rd_path = IF regressed THEN "regressed"
                                            ELSE IF @ = "loaded" THEN "ok"
                                            ELSE "ok_short",
                                !.rd_quiet = @ /\ (StampsInFlight = {})]
    /\ UNCHANGED << g_ticker_fn, init_done, ts_read_work, ts_write_work,
                    ts_stamp_rw_mutex, ticker, mounted, file, init, st, wr >>

\* line 160: ts_close(tsfp)
ts_read_stamp_close ==
    /\ rd.pc = "close"
    /\ rd' = [rd EXCEPT !.tsfp = ts_close(@), !.pc = "unlock"]
    /\ UNCHANGED << g_stamp, g_ticker_fn, init_done, ts_read_work, ts_write_work,
                    ts_stamp_rw_mutex, ticker, mounted, file, init, st, wr, hist >>

\* line 161: mutex_unlock
ts_read_stamp_unlock ==
    /\ rd.pc = "unlock"
    /\ ts_stamp_rw_mutex' \in mutex_unlock(ts_stamp_rw_mutex, "reader")
    /\ rd' = [rd EXCEPT !.pc = "post"]
    /\ UNCHANGED << g_stamp, g_ticker_fn, init_done, ts_read_work, ts_write_work,
                    ticker, mounted, file, init, st, wr, hist >>

\* a fallback that reads the ticker afresh instead of passing its local
fallback_tick_fresh(tick) == ticker

\* the argument of the fallback ts_stamp call at line 165
fallback_tick(tick) == tick

\* the frame and history of a recovery run that returned
ReaderReturned == [IdleReader EXCEPT !.pc = "done"]
ReaderForgot(h) == [h EXCEPT !.rd_path = "none", !.rd_seen = 0,
                             !.rd_stamps = 0, !.rd_quiet = FALSE]

\* lines 163-165: on failure run ts_stamp(tick) up to its store (with no
\* ticker registered it returns at once); on success the worker returns
ts_read_stamp_post ==
    /\ rd.pc = "post"
    /\ IF rd.size < 0
       THEN /\ st' = ts_stamp_enter("reader", fallback_tick(rd.tick))
            /\ rd' = [rd EXCEPT !.pc = IF g_ticker_fn THEN "stamp" ELSE "set"]
            /\ hist' = [(IF g_ticker_fn
                         THEN StampBegan(hist, SpecDelta(ticker, rd.tick))
                         ELSE hist)
                           EXCEPT !.rd_stamps = @ + 1]
       ELSE /\ rd' = ReaderReturned
            /\ hist' = ReaderForgot(hist)
            /\ UNCHANGED st
    /\ UNCHANGED << g_stamp, g_ticker_fn, init_done, ts_read_work, ts_write_work,
                    ts_stamp_rw_mutex, ticker, mounted, file, init, wr >>

\* lines 166-167: ts_set(), and the worker returns
ts_read_stamp_set ==
    /\ rd.pc = "set"
    /\ ts_write_work' = ts_work_run(ts_write_work).work
    /\ hist' = ReaderForgot([SetCalled(hist, ts_work_run(ts_write_work))
                                EXCEPT !.rebuilt = IF hist.rd_path = "regressed"
                                                   THEN "requested" ELSE @])
    /\ rd' = ReaderReturned
    /\ UNCHANGED << g_stamp, g_ticker_fn, init_done, ts_read_work,
                    ts_stamp_rw_mutex, ticker, mounted, file, init, st, wr >>

\* ------------------------------------------------------------- ts_write_stamp
\* the workqueue starts the persist work: the pending bit is cleared and
\* ts_write_stamp is entered (lines 172-177)
ts_write_stamp_start ==
    /\ ts_write_work.pending
    /\ wr.pc \in {"idle", "done"}
    /\ ts_write_work' = [ts_write_work EXCEPT !.pending = FALSE]
    /\ wr' = [IdleWriter EXCEPT !.pc = "wait",
                                !.count = ts_write_work.retrigger_count]
    /\ UNCHANGED << g_stamp, g_ticker_fn, init_done, ts_read_work,
                    ts_stamp_rw_mutex, ticker, mounted, file, init, st, rd, hist >>

\* lines 178-179: one turn of wait_vfsmount; false leaves through _exit
ts_write_stamp_wait ==
    /\ wr.pc = "wait"
    /\ LET w == wait_vfsmount(wr.count)
       IN wr' = [wr EXCEPT !.count = w.count,
                           !.pc = IF w.next = "exit" THEN "close" ELSE w.next]
    /\ UNCHANGED << g_stamp, g_ticker_fn, init_done, ts_read_work, ts_write_work,
                    ts_stamp_rw_mutex, ticker, mounted, file, init, st, rd, hist >>

\* lines 181-183: mutex_lock, then ts_open(TS_PATH, O_CREAT | O_TRUNC |
\* O_WRONLY): a successful open leaves an empty file; NULL leaves through _exit
ts_write_stamp_open(ok) ==
    /\ wr.pc = "lock"
    /\ mutex_lock(ts_stamp_rw_mutex)
    /\ ts_stamp_rw_mutex' = "writer"
    /\ file' = IF ok THEN EmptyFile ELSE file
    /\ wr' = [wr EXCEPT !.tsfp = ok, !.pc = IF ok THEN "snapshot" ELSE "close"]
    /\ UNCHANGED << g_stamp, g_ticker_fn, init_done, ts_read_work, ts_write_work,
                    ticker, mounted, init, st, rd, hist >>

\* line 185: get_stamp(&stamp)
ts_write_stamp_snapshot ==
    /\ wr.pc = "snapshot"
    /\ wr' = [wr EXCEPT !.stamp = g_stamp, !.pc = "write"]
    /\ UNCHANGED << g_stamp, g_ticker_fn, init_done, ts_read_work, ts_write_work,
                    ts_stamp_rw_mutex, ticker, mounted, file, init, st, rd, hist >>

\* a ts_write handed the live record instead of the snapshot
ts_write_live(stamp) == FullFile(g_stamp.epoch)

\* lines 113-122: what a successful ts_write of `stamp` leaves in the file
ts_write(stamp) == FullFile(stamp.epoch)

\* lines 187-188: ts_write of the snapshot: the whole record, or an error
ts_write_stamp_write(ok) ==
    /\ wr.pc = "write"
    /\ file' = IF ok THEN ts_write(wr.stamp) ELSE file
    /\ wr' = [wr EXCEPT !.size = IF ok THEN SizeofStamp ELSE 0 - EIO,
                        !.pc = "close"]
    /\ hist' = [hist EXCEPT !.rebuilt = IF ok /\ @ = "requested" THEN "written"
                                        ELSE @]
    /\ UNCHANGED << g_stamp, g_ticker_fn, init_done, ts_read_work, ts_write_work,
                    ts_stamp_rw_mutex, ticker, mounted, init, st, rd >>

\* line 191: ts_close(tsfp)
ts_write_stamp_close ==
    /\ wr.pc = "close"
    /\ wr' = [wr EXCEPT !.tsfp = ts_close(@), !.pc = "unlock"]
    /\ UNCHANGED << g_stamp, g_ticker_fn, init_done, ts_read_work, ts_write_work,
                    ts_stamp_rw_mutex, ticker, mounted, file, init, st, rd, hist >>

\* lines 192-195: mutex_unlock, and the worker returns
ts_write_stamp_unlock ==
    /\ wr.pc = "unlock"
    /\ ts_stamp_rw_mutex' \in mutex_unlock(ts_stamp_rw_mutex, "writer")
    /\ wr' = [IdleWriter EXCEPT !.pc = "done"]
    /\ UNCHANGED << g_stamp, g_ticker_fn, init_done, ts_read_work, ts_write_work,
                    ticker, mounted, file, init, st, rd, hist >>

\* ------------------------------------------------------------ specification
Next ==
    \/ Tick
    \/ Mount
    \/ \E c \in DOMAIN init, fn \in TickerArgs : ts_init_test(c, fn)
    \/ \E c \in DOMAIN init : ts_init_body(c)
    \/ \E c \in StampCallers, tick \in Unsigned : ts_stamp_call(c, tick)
    \/ \E c \in StampContexts : ts_stamp_store(c)
    \/ ts_set_call
    \/ ts_read_stamp_start
    \/ ts_read_stamp_wait
    \/ \E ok \in BOOLEAN : ts_read_stamp_open(ok)
    \/ \E ok \in BOOLEAN : ts_read_stamp_read(ok)
    \/ ts_read_stamp_validate
    \/ ts_read_stamp_close
    \/ ts_read_stamp_unlock
    \/ ts_read_stamp_post
    \/ ts_read_stamp_set
    \/ ts_write_stamp_start
    \/ ts_write_stamp_wait
    \/ \E ok \in BOOLEAN : ts_write_stamp_open(ok)
    \/ ts_write_stamp_snapshot
    \/ \E ok \in BOOLEAN : ts_write_stamp_write(ok)
    \/ ts_write_stamp_close
    \/ ts_write_stamp_unlock

Spec == Init /\ [][Next]_vars

\* The same program with two contexts racing into ts_init and an embedding
\* system that makes no ts_stamp and no ts_set call.
NextInitRace ==
    \/ Tick
    \/ Mount
    \/ \E c \in DOMAIN init, fn \in TickerArgs : ts_init_test(c, fn)
    \/ \E c \in DOMAIN init : ts_init_body(c)
    \/ ts_stamp_store("reader")
    \/ ts_read_stamp_start
    \/ ts_read_stamp_wait
    \/ \E ok \in BOOLEAN : ts_read_stamp_open(ok)
    \/ \E ok \in BOOLEAN : ts_read_stamp_read(ok)
    \/ ts_read_stamp_validate
    \/ ts_read_stamp_close
    \/ ts_read_stamp_unlock
    \/ ts_read_stamp_post
    \/ ts_read_stamp_set
    \/ ts_write_stamp_start
    \/ ts_write_stamp_wait
    \/ \E ok \in BOOLEAN : ts_write_stamp_open(ok)
    \/ ts_write_stamp_snapshot
    \/ \E ok \in BOOLEAN : ts_write_stamp_write(ok)
    \/ ts_write_stamp_close
    \/ ts_write_stamp_unlock

SpecInitRace == InitFor(RacingInitCallers) /\ [][NextInitRace]_vars

\* The system restarts: the statics of lines 25-29 and init_done are back at
\* their load-time values and every context is gone; the backing file is what
\* the previous run left, the hardware counter reads anything.
Reboot ==
    /\ hist.boots < MaxBoots
    /\ g_stamp' = [epoch |-> 0]
    /\ g_ticker_fn' = FALSE
    /\ init_done' = FALSE
    /\ ts_read_work' = ZeroWork
    /\ ts_write_work' = ZeroWork
    /\ ts_stamp_rw_mutex' = "unlocked"
    /\ ticker' \in Unsigned
    /\ mounted' = FALSE
    /\ init' = [c \in DOMAIN init |-> IdleInit]
    /\ st' = [c \in StampContexts |-> IdleStamp]
    /\ rd' = IdleReader
    /\ wr' = IdleWriter
    /\ hist' = [InitHist EXCEPT !.boots = hist.boots + 1,
                                !.rebuilt = IF hist.rebuilt = "written"
                                            THEN "written" ELSE "no"]
    /\ UNCHANGED file

\* The program over restarts, with an embedding system that makes no ts_stamp
\* and no ts_set call.
NextReboot ==
    \/ Tick
    \/ Mount
    \/ Reboot
    \/ \E c \in DOMAIN init, fn \in TickerArgs : ts_init_test(c, fn)
    \/ \E c \in DOMAIN init : ts_init_body(c)
    \/ ts_stamp_store("reader")
    \/ ts_read_stamp_start
    \/ ts_read_stamp_wait
    \/ \E ok \in BOOLEAN : ts_read_stamp_open(ok)
    \/ \E ok \in BOOLEAN : ts_read_stamp_read(ok)
    \/ ts_read_stamp_validate
    \/ ts_read_stamp_close
    \/ ts_read_stamp_unlock
    \/ ts_read_stamp_post
    \/ ts_read_stamp_set
    \/ ts_write_stamp_start
    \/ ts_write_stamp_wait
    \/ \E ok \in BOOLEAN : ts_write_stamp_open(ok)
    \/ ts_write_stamp_snapshot
    \/ \E ok \in BOOLEAN : ts_write_stamp_write(ok)
    \/ ts_write_stamp_close
    \/ ts_write_stamp_unlock

SpecReboot == Init /\ [][NextReboot]_vars

\* The workers alone, with works that ts_work_init gave any retry budget:
\* the state after a ts_init that passed `budget` where the code passes
\* INFINITY, and the runs of the two workers from there.
InitBudget ==
    /\ g_stamp = [epoch |-> 0]
    /\ g_ticker_fn \in TickerArgs
    /\ init_done = TRUE
    /\ \E budget \in 0 .. INFINITY :
          /\ ts_read_work = ts_work_run(ts_work_init(budget, TS_INTERVAL)).work
          /\ ts_write_work = ts_work_init(budget, TS_INTERVAL)
    /\ ts_stamp_rw_mutex = "unlocked"
    /\ ticker \in Unsigned
    /\ mounted = FALSE
    /\ file \in FileStates
    /\ init = [c \in InitCallers |-> IdleInit]
    /\ st = [c \in StampContexts |-> IdleStamp]
    /\ rd = IdleReader
    /\ wr = IdleWriter
    /\ hist = [InitHist EXCEPT !.init_runs = 1]

NextBudget ==
    \/ Tick
    \/ Mount
    \/ ts_stamp_store("reader")
    \/ ts_read_stamp_start
    \/ ts_read_stamp_wait
    \/ \E ok \in BOOLEAN : ts_read_stamp_open(ok)
    \/ \E ok \in BOOLEAN : ts_read_stamp_read(ok)
    \/ ts_read_stamp_validate
    \/ ts_read_stamp_close
    \/ ts_read_stamp_unlock
    \/ ts_read_stamp_post
    \/ ts_read_stamp_set
    \/ ts_write_stamp_start
    \/ ts_write_stamp_wait
    \/ \E ok \in BOOLEAN : ts_write_stamp_open(ok)
    \/ ts_write_stamp_snapshot
    \/ \E ok \in BOOLEAN : ts_write_stamp_write(ok)
    \/ ts_write_stamp_close
    \/ ts_write_stamp_unlock

SpecBudget == InitBudget /\ [][NextBudget]_vars

\* The workqueue runs a queued work and a running worker keeps being
\* scheduled; a ts_stamp call of the recovery worker runs to its end; the
\* mutex is handed to a waiting worker once it stays free.
FairWorkers ==
    /\ WF_vars(ts_read_stamp_start)
    /\ WF_vars(ts_read_stamp_wait)
    /\ WF_vars(\E ok \in BOOLEAN : ts_read_stamp_open(ok))
    /\ WF_vars(\E ok \in BOOLEAN : ts_read_stamp_read(ok))
    /\ WF_vars(ts_read_stamp_validate)
    /\ WF_vars(ts_read_stamp_close)
    /\ WF_vars(ts_read_stamp_unlock)
    /\ WF_vars(ts_read_stamp_post)
    /\ WF_vars(ts_stamp_store("reader"))
    /\ WF_vars(ts_read_stamp_set)
    /\ WF_vars(ts_write_stamp_snapshot)
    /\ WF_vars(\E ok \in BOOLEAN : ts_write_stamp_write(ok))
    /\ WF_vars(ts_write_stamp_close)
    /\ WF_vars(ts_write_stamp_unlock)

\* The program under fair scheduling of the workers, with an embedding system
\* that requests persists and makes no ts_stamp call.
NextLive ==
    \/ Tick
    \/ Mount
    \/ \E c \in DOMAIN init, fn \in TickerArgs : ts_init_test(c, fn)
    \/ \E c \in DOMAIN init : ts_init_body(c)
    \/ ts_stamp_store("reader")
    \/ ts_set_call
    \/ ts_read_stamp_start
    \/ ts_read_stamp_wait
    \/ \E ok \in BOOLEAN : ts_read_stamp_open(ok)
    \/ \E ok \in BOOLEAN : ts_read_stamp_read(ok)
    \/ ts_read_stamp_validate
    \/ ts_read_stamp_close
    \/ ts_read_stamp_unlock
    \/ ts_read_stamp_post
    \/ ts_read_stamp_set
    \/ ts_write_stamp_start
    \/ ts_write_stamp_wait
    \/ \E ok \in BOOLEAN : ts_write_stamp_open(ok)
    \/ ts_write_stamp_snapshot
    \/ \E ok \in BOOLEAN : ts_write_stamp_write(ok)
    \/ ts_write_stamp_close
    \/ ts_write_stamp_unlock

SpecLive == Init /\ [][NextLive]_vars /\ FairWorkers

\* ================================================================== claims

\* C1: once every ts_stamp call has returned, the live epoch is the value
\* before the calls plus the sum of all their deltas, for any interleaving of
\* the calls (the recovery worker not having written the epoch in between).
NoLostUpdate ==
    (hist.race # "recovery" /\ StampsInFlight = {}) => g_stamp.epoch = hist.shadow

\* C2: every context inside an access to the live epoch holds the mutex, so
\* at most one context is inside such an access.
EpochAccessors ==
    StampsInFlight
        \cup (IF rd.pc \in {"read", "validate"} THEN {"reader"} ELSE {})
        \cup (IF wr.pc = "snapshot" THEN {"writer"} ELSE {})
ExclusiveEpochAccess ==
    /\ Cardinality(EpochAccessors) <= 1
    /\ \A c \in EpochAccessors : ts_stamp_rw_mutex = c

\* C3: a full record E, a registered ticker and a reading T >= E at validation
\* (T within the range of a long): when the recovery worker has closed the file
\* and is about to release the mutex it took the success path and the live
\* epoch is E.
RecoveryRoundTrip ==
    (/\ rd.pc = "unlock"
     /\ g_ticker_fn
     /\ hist.rd_path \in {"ok", "regressed"}
     /\ file.len = SizeofStamp
     /\ ToSigned(rd.tick) = rd.tick
     /\ rd.tick >= file.epoch)
        => (hist.rd_path = "ok" /\ g_stamp.epoch = file.epoch)

\* C4: a full record E and a ticker reading T < E at validation: the recovery
\* worker discards E and resets the epoch to 0 (when it has closed the file
\* and is about to release the mutex, it is on the failure path and the epoch
\* is 0), then makes exactly one ts_stamp call with reference tick T, which
\* adds ticker-at-stamp minus T, and submits the persist work before it
\* returns.
RegressionDiscards ==
    (/\ rd.pc = "unlock"
     /\ g_ticker_fn
     /\ hist.rd_path \in {"ok", "regressed"}
     /\ file.len = SizeofStamp
     /\ rd.tick < file.epoch)
        => (hist.rd_path = "regressed" /\ rd.size < 0 /\ g_stamp.epoch = 0)
RegressionStamps ==
    [][(/\ rd.pc = "post"
        /\ rd'.pc # "post"
        /\ hist.rd_path = "regressed")
          => (/\ rd'.pc = "stamp"
              /\ hist'.rd_stamps = 1
              /\ st'["reader"].sum = ToSigned(g_stamp.epoch + ticker - rd.tick))]_vars
RegressionSubmits ==
    [][(/\ hist.rd_path = "regressed"
        /\ rd.pc # "done"
        /\ rd'.pc = "done")
          => (rd.pc = "set" /\ ts_write_work'.pending)]_vars
RegressionRecovery == []RegressionDiscards /\ RegressionStamps /\ RegressionSubmits

\* C5 as claimed: with the file absent the recovery ends as the regression
\* case does for the same readings, the epoch rebuilt from 0 by one stamp
\* against the ticker reading of the recovery (ticker-at-stamp minus T).
AbsentLikeRegression ==
    [][(/\ rd.pc = "post"
        /\ rd'.pc = "stamp"
        /\ hist.rd_path = "absent")
          => st'["reader"].sum = ToSigned(ticker - hist.rd_seen)]_vars

\* C5 as amended: with the file absent the recovery worker takes the failure
\* path, makes exactly one ts_stamp call and submits the persist work, as in
\* the regression case; but it does not reset the epoch and the reference tick
\* of its stamp is 0, so the stamp adds the whole ticker reading to the epoch
\* it finds.
AbsentStamps ==
    [][(/\ rd.pc = "post"
        /\ rd'.pc # "post"
        /\ hist.rd_path = "absent")
          => (/\ rd'.pc \in {"stamp", "set"}
              /\ hist'.rd_stamps = 1
              /\ g_ticker_fn =>
                    (/\ rd'.pc = "stamp"
                     /\ st'["reader"].sum = ToSigned(g_stamp.epoch + ticker)))]_vars
AbsentKeepsEpoch ==
    [][(/\ hist.rd_path = "absent"
        /\ rd.pc \in {"close", "unlock", "post"}
        /\ rd'.pc # rd.pc)
          => g_stamp' = g_stamp]_vars
AbsentSubmits ==
    [][(/\ hist.rd_path = "absent"
        /\ rd.pc # "done"
        /\ rd'.pc = "done")
          => (rd.pc = "set" /\ ts_write_work'.pending)]_vars
AbsentRecovery == AbsentStamps /\ AbsentKeepsEpoch /\ AbsentSubmits

\* C5 witness: an absent-file recovery, no other stamp ever made, has folded
\* its one stamp and left a non-zero epoch (the ticker reading).
AbsentRecovered ==
    /\ rd.pc = "set"
    /\ hist.rd_path = "absent"
    /\ g_ticker_fn
    /\ hist.stamps = 0
    /\ g_stamp.epoch # 0

\* C6 as claimed: when the persist worker has written successfully (no newer
\* request pending), the record holds the epoch that was live when ts_set
\* queued the work.
PersistHoldsRequestEpoch ==
    (wr.pc = "close" /\ wr.size >= 0 /\ ~ts_write_work.pending)
        => file = FullFile(hist.req_epoch)

\* C6 as amended: when the persist worker has written successfully, the
\* record holds the epoch that was live when the worker took its snapshot
\* under the mutex (stamps between the request and the snapshot are in it,
\* stamps after the snapshot are not); a recovery that reads the whole record
\* loads exactly the recorded value into the live epoch.
PersistSnapshotIsLive ==
    [][(wr.pc = "snapshot" /\ wr'.pc = "write") => wr'.stamp = g_stamp]_vars
PersistWritesSnapshot ==
    [][(wr.pc = "write" /\ wr'.pc = "close" /\ wr'.size >= 0)
          => file' = FullFile(wr.stamp.epoch)]_vars
RecoveryLoadsRecord ==
    [][(rd.pc = "read" /\ rd'.pc = "validate" /\ rd'.size = SizeofStamp)
          => g_stamp'.epoch = file.epoch]_vars
PersistRoundTrip ==
    PersistSnapshotIsLive /\ PersistWritesSnapshot /\ RecoveryLoadsRecord

\* C6 witness: a successful write whose record differs from the epoch of the
\* time of the request and from the epoch live at the time of the write.
PersistedLaterEpoch ==
    /\ wr.pc = "close"
    /\ wr.size >= 0
    /\ ~ts_write_work.pending
    /\ hist.sets = 1
    /\ file.epoch # hist.req_epoch
    /\ file.epoch # g_stamp.epoch

\* C7: ts_set returns true exactly when its schedule_work queued the persist
\* work (so the recovery worker logs a failure only when nothing was queued).
SetReturnsSubmitted ==
    [][(ts_set_call \/ ts_read_stamp_set)
          => (ts_set(ts_work_run(ts_write_work).ret)
                  <=> ts_work_run(ts_write_work).ret)]_vars

\* C8: the body of ts_init (ticker registration, work initialisation,
\* submission of the recovery work) runs at most once, whatever the
\* interleaving of ts_init calls.
InitOnce == hist.init_runs <= 1

\* C9: with no overlap between ts_stamp calls and no recovery write in
\* between, once the calls have returned the live epoch is the epoch before
\* plus the sum of (ticker at call i - r_i), as signed machine integers.
SequentialStampSum ==
    (hist.race = "none" /\ StampsInFlight = {}) => g_stamp.epoch = hist.shadow

\* C9 witness: two non-overlapping stamps folded before recovery ran, with a
\* non-zero sum.
TwoStampsFolded ==
    /\ hist.stamps = 2
    /\ hist.race = "none"
    /\ StampsInFlight = {}
    /\ rd.pc = "idle"
    /\ g_stamp.epoch # 0

\* C10 as claimed: on the success path of a validation against a registered
\* ticker the live epoch is not negative.
RecoveredEpochNonNegative ==
    (rd.pc = "close" /\ g_ticker_fn /\ hist.rd_path = "ok") => g_stamp.epoch >= 0

\* C10 as amended: when validation against a registered ticker passes, the
\* live epoch is not greater than the ticker reading taken as a signed long;
\* no lower bound is enforced, a negative record passes.
ValidatedEpochBounded ==
    [][(/\ rd.pc = "validate"
        /\ rd'.pc = "close"
        /\ g_ticker_fn
        /\ rd'.size >= 0)
          => g_stamp'.epoch <= ToSigned(rd'.tick)]_vars

\* C10 witness: a negative record has passed validation.
NegativeRecordAccepted ==
    /\ rd.pc = "close"
    /\ g_ticker_fn
    /\ hist.rd_path = "ok"
    /\ hist.rd_quiet
    /\ g_stamp.epoch < 0

\* C11: a read that returned fewer bytes than the record (none, from an empty
\* file) is a failure: the recovery worker comes out of its critical section
\* on the failure path, so that it stamps and submits the persist work.
ShortReadFails ==
    (rd.pc = "post" /\ hist.rd_path = "ok_short") => rd.size < 0

\* C12: ts_get gives 0 as long as no ts_stamp call has folded a delta and the
\* recovery worker has not finished validating, also while the worker is
\* between its read of the record and its validation.
GetBeforeRecovery ==
    (/\ hist.stamps = 0
     /\ rd.pc \in {"idle", "wait", "lock", "read", "validate"})
        => ts_get = 0


\* C13: a recovery run after a restart, against the record the persist
\* worker wrote for a ticker-regression recovery, the ticker not regressed
\* (the reading T >= the record, T within the range of a long) and no ts_stamp
\* call made: the run comes out of its critical section on the success path
\* with the live epoch equal to the record, and (the system not restarting
\* under it) returns without a stamp and without submitting the persist work.
RepeatedRecoveryCase ==
    /\ hist.boots >= 1
    /\ hist.rebuilt = "written"
    /\ g_ticker_fn
    /\ file.len = SizeofStamp
    /\ hist.rd_path \in {"ok", "regressed"}
    /\ rd.tick <= SignedMax
    /\ file.epoch <= rd.tick
RepeatedRecoveryLoads ==
    (rd.pc \in {"unlock", "post"} /\ RepeatedRecoveryCase)
        => (hist.rd_path = "ok" /\ rd.size >= 0 /\ g_stamp.epoch = file.epoch)
RepeatedRecoveryQuiet ==
    [][(/\ rd.pc = "post"
        /\ rd'.pc # "post"
        /\ hist'.boots = hist.boots
        /\ RepeatedRecoveryCase)
          => (/\ rd'.pc = "done"
              /\ g_stamp' = g_stamp
              /\ ts_write_work' = ts_write_work
              /\ ~ts_write_work.pending)]_vars
WorkersNeverShareFile ==
    /\ ~(rd.tsfp /\ wr.tsfp)
    /\ rd.tsfp => ts_stamp_rw_mutex = "reader"
    /\ wr.tsfp => ts_stamp_rw_mutex = "writer"

\* C14 witness: the persist worker waits for the mutex while the recovery
\* worker has the file open.
WriterWaitsForReader ==
    /\ rd.tsfp
    /\ rd.pc = "validate"
    /\ wr.pc = "lock"


\* C15: with no ticker registered ts_stamp does nothing: no call reaches the
\* read-modify-write and the live epoch changes only when the recovery worker
\* loads a record; the recovery worker validates nothing (a record read is
\* kept, the result of the read stands), and on a failure its fallback stamp
\* leaves the epoch as it is while the persist work is still submitted.
NoTickerNoStamp == ~g_ticker_fn => StampsInFlight = {}
NoTickerKeepsEpoch ==
    [][~g_ticker_fn
          => (g_stamp' = g_stamp \/ (rd.pc = "read" /\ rd'.pc = "validate"))]_vars
NoTickerNoValidation ==
    [][(rd.pc = "validate" /\ rd'.pc # "validate" /\ ~g_ticker_fn)
          => (rd'.pc = "close" /\ g_stamp' = g_stamp /\ rd'.size = rd.size)]_vars
NoTickerFallback ==
    [][(rd.pc = "post" /\ rd'.pc # "post" /\ rd.size < 0 /\ ~g_ticker_fn)
          => (rd'.pc = "set" /\ g_stamp' = g_stamp /\ st' = st)]_vars
FallbackSubmits ==
    [][(rd.pc = "set" /\ rd'.pc # "set")
          => (rd'.pc = "done" /\ ts_write_work'.pending)]_vars
NoTickerNoop ==
    /\ []NoTickerNoStamp
    /\ NoTickerKeepsEpoch
    /\ NoTickerNoValidation
    /\ NoTickerFallback
    /\ FallbackSubmits

\* C15 witness: ts_init registered no ticker, the file was absent, and the
\* recovery worker has made its fallback ts_stamp call, the epoch still 0.
NoTickerFallbackDone ==
    /\ ~g_ticker_fn
    /\ rd.pc = "set"
    /\ hist.rd_path = "absent"
    /\ hist.rd_stamps = 1
    /\ g_stamp.epoch = 0


\* C16: wait_vfsmount gives true when the directory resolves at the first
\* attempt and the budget is at least 1, finite or INFINITY: a worker on its
\* first turn of the loop, its whole budget (>= 1) left and the directory
\* resolvable, goes on to take the mutex.
WaitFirstAttemptSucceeds ==
    [][/\ (/\ rd.pc = "wait"
           /\ rd' # rd
           /\ mounted
           /\ rd.count >= 1
           /\ rd.count = ts_read_work.retrigger_count) => rd'.pc = "lock"
       /\ (/\ wr.pc = "wait"
           /\ wr' # wr
           /\ mounted
           /\ wr.count >= 1
           /\ wr.count = ts_write_work.retrigger_count) => wr'.pc = "lock"]_vars


\* C17: under fair scheduling, once the recovery worker is waiting and the
\* storage directory resolves (it stays resolvable), the worker eventually
\* returns, the mutex not his and no file handle open; with the INFINITY
\* budget the worker never leaves the mount-wait other than to take the mutex,
\* and while the directory does not resolve the live epoch is changed by
\* nobody but a ts_stamp call of the embedding system.
RecoveryTerminates ==
    (rd.pc = "wait" /\ mounted)
        ~> (rd.pc = "done" /\ ~rd.tsfp /\ ts_stamp_rw_mutex # "reader")
RecoveryNeverGivesUp ==
    [][rd.pc = "wait" => rd'.pc \in {"wait", "lock"}]_vars
RecoveryQuietUnmounted ==
    [][(~mounted /\ g_stamp' # g_stamp)
          => \E c \in StampCallers : st[c].pc = "store" /\ st'[c].pc = "idle"]_vars
RecoveryLive ==
    RecoveryTerminates /\ RecoveryNeverGivesUp /\ RecoveryQuietUnmounted

\* C17 witness: the recovery worker has returned after the directory became
\* resolvable; by now the persist worker, at work for a ts_set call, owns the
\* mutex.
RecoveryReturned ==
    /\ rd.pc = "done"
    /\ mounted
    /\ ~rd.tsfp
    /\ ts_stamp_rw_mutex = "writer"


\* C18: in every run of either worker a handle that was opened is closed
\* before the worker releases the mutex, no handle is open outside the span
\* from open to close (none when the worker has finished), and the recovery
\* worker's fallback ts_stamp call and its ts_set come only after it released
\* the mutex.
ClosedBeforeUnlock ==
    [][/\ (ts_stamp_rw_mutex = "reader" /\ ts_stamp_rw_mutex' # "reader")
              => ~rd.tsfp
       /\ (ts_stamp_rw_mutex = "writer" /\ ts_stamp_rw_mutex' # "writer")
              => ~wr.tsfp]_vars
NoHandleLeft ==
    /\ rd.tsfp => rd.pc \in {"read", "validate", "close"}
    /\ wr.tsfp => wr.pc \in {"snapshot", "write", "close"}
FallbackAfterUnlock ==
    (rd.pc \in {"post", "stamp", "set"} \/ InStamp("reader"))
        => ts_stamp_rw_mutex # "reader"
WorkersReleaseInOrder ==
    ClosedBeforeUnlock /\ []NoHandleLeft /\ []FallbackAfterUnlock

\* C18 witness: the recovery worker had the file open, found the ticker
\* regressed, and is inside its fallback ts_stamp call, the mutex free.
FallbackStampUnlocked ==
    /\ rd.pc = "stamp"
    /\ hist.rd_path = "regressed"
    /\ ~rd.tsfp
    /\ ts_stamp_rw_mutex = "unlocked"


\* C19: a worker that is about to execute mutex_unlock owns the mutex, and
\* no worker leaves the mount-wait through _exit: both works carry the
\* INFINITY budget, so a turn of wait_vfsmount ends in another turn or in
\* mutex_lock.
UnlockOnlyOwned ==
    /\ rd.pc = "unlock" => ts_stamp_rw_mutex = "reader"
    /\ wr.pc = "unlock" => ts_stamp_rw_mutex = "writer"
InfiniteBudget ==
    /\ rd.pc = "wait" => rd.count = INFINITY
    /\ wr.pc = "wait" => wr.count = INFINITY
WaitNeverExits ==
    [][/\ rd.pc = "wait" => rd'.pc \in {"wait", "lock"}
       /\ wr.pc = "wait" => wr'.pc \in {"wait", "lock"}]_vars
NoStrayUnlock == []UnlockOnlyOwned /\ []InfiniteBudget /\ WaitNeverExits

\* C19 witness: the recovery worker is about to release the mutex it took
\* while the persist worker waits for it.
ReaderUnlocksOwned ==
    /\ rd.pc = "unlock"
    /\ ts_stamp_rw_mutex = "reader"
    /\ wr.pc = "lock"

\* C20: a worker in the mount-wait loop does not own the mutex; the owner of
\* the mutex is a worker between its mutex_lock and its mutex_unlock, where
\* nothing makes it wait, so a worker waiting for the mutex gets it.
NoLockWhileWaiting ==
    /\ rd.pc = "wait" => ts_stamp_rw_mutex # "reader"
    /\ wr.pc = "wait" => ts_stamp_rw_mutex # "writer"
OwnerInCriticalSection ==
    /\ ts_stamp_rw_mutex = "reader"
          => rd.pc \in {"read", "validate", "close", "unlock"}
    /\ ts_stamp_rw_mutex = "writer"
          => wr.pc \in {"snapshot", "write", "close", "unlock"}
WaitOutsideMutex == NoLockWhileWaiting /\ OwnerInCriticalSection

\* C20 witness: the persist worker is in the mount-wait loop while the
\* recovery worker owns the mutex.
WriterWaitsReaderOwns ==
    /\ wr.pc = "wait"
    /\ ts_stamp_rw_mutex = "reader"


====
